---- MODULE Spec2Model ----
(***************************************************************************)
(* Model of jaclang's bytecode-to-CFG pipeline (runtimelib/cfg.py:         *)
(* disassemble_bytecode, create_BBs, create_cfg) and of the live tracer    *)
(* (runtimelib/machine.py: CFGTracker).                                    *)
(*                                                                         *)
(* Block and node ids are the 0-based ids of the Python code; block_map is *)
(* a sequence whose k-th element is the block with id k-1.  An instruction *)
(* is a record with the BytecodeOp fields the three functions read: op,    *)
(* offset, argval, is_jump_target and the private __offset_size.           *)
(***************************************************************************)
EXTENDS Integers, Sequences, FiniteSets

VARIABLES
    raw,              \* what dis.get_instructions yields for the code object
    pc,               \* position in the pipeline
    instructions,     \* list returned by disassemble_bytecode
    block_map,        \* BlockMap.idx_to_block returned by create_BBs
    cfg,              \* CFG returned by create_cfg: nodes, edges, edge_counts
    variable_values,  \* CFGTracker.variable_values
    variable_values_lock, \* CFGTracker.variable_values_lock is held
    trace_hook,       \* per thread, the function installed with sys.settrace
    blocked,          \* threads waiting in variable_values_lock.acquire()
    last_call,        \* the last CFGTracker operation, its inputs and result
    lifecycle,        \* how far the start / record / stop / start cycle got
    cfgs,             \* ShellGhost.cfgs
    cfg_cv,           \* ShellGhost.cfg_cv: lock owner, waiting and notified threads
    finished_exception_lock, \* the thread holding ShellGhost.finished_exception_lock
    exception,        \* ShellGhost.exception
    finished,         \* ShellGhost.finished
    worker,           \* the thread running ShellGhost.worker: position and locals
    executing,        \* the thread executing the program: position and locals
    history,          \* what the executing thread has called so far
    ghost_threads     \* the threads of further start_ghost calls: position

vars == <<raw, pc, instructions, block_map, cfg, variable_values,
          variable_values_lock, trace_hook, blocked, last_call, lifecycle,
          cfgs, cfg_cv, finished_exception_lock, exception, finished, worker,
          executing, history,
                   ghost_threads>>

ghostVars == <<cfgs, cfg_cv, finished_exception_lock, exception, finished,
               worker, executing, history,
                   ghost_threads>>

cfgVars == <<raw, pc, instructions, block_map, cfg>>

trackerVars == <<variable_values, variable_values_lock, trace_hook, blocked,
                 last_call, lifecycle>>

----------------------------------------------------------------------------
(* Bounds of the checked instance *)

\* longest instruction stream drawn as input
MaxLen == 3

\* most control-transfer instructions (branch, jump, FOR_ITER) in one stream
MaxBranch == 1

\* line events the executing program runs under the monitor
MaxEvents == 2

\* start_ghost calls after the first one
MaxRestarts == 2

----------------------------------------------------------------------------
(* BytecodeOp *)

\* value of Python's None where the code returns a block id or None
None == -1

ConditionalOps ==
    {"POP_JUMP_IF_TRUE", "POP_JUMP_IF_FALSE",
     "JUMP_IF_TRUE_OR_POP", "JUMP_IF_FALSE_OR_POP"}

UnconditionalOps == {"JUMP_FORWARD", "JUMP_ABSOLUTE", "JUMP_BACKWARD"}

ControlOps == ConditionalOps \cup UnconditionalOps \cup {"FOR_ITER"}

PlainOps == {"LOAD_FAST", "RETURN_VALUE", "RAISE_VARARGS"}

\* BytecodeOp.__init__: the offset size defaults to 0
BytecodeOp(op, offset, argval, is_jump_target) ==
    [op |-> op, offset |-> offset, argval |-> argval,
     is_jump_target |-> is_jump_target, offset_size |-> 0]

is_branch(instr) ==
    instr.op \in {"JUMP_ABSOLUTE", "JUMP_FORWARD", "POP_JUMP_IF_TRUE",
                  "POP_JUMP_IF_FALSE", "JUMP_IF_TRUE_OR_POP",
                  "JUMP_IF_FALSE_OR_POP"}

is_relative_branch(instr) == instr.op \in {"FOR_ITER", "JUMP_FORWARD"}

is_return(instr) == instr.op = "RETURN_VALUE"

is_raise(instr) == instr.op = "RAISE_VARARGS"

set_offset_size(instr, size) == [instr EXCEPT !.offset_size = size]

get_offset_size(instr) == instr.offset_size

get_next_instruction_offset(instr) == instr.offset_size + instr.offset

\* str.startswith('POP_JUMP_IF') on the opcode names of the model
StartsWithPopJumpIf(op) == op \in {"POP_JUMP_IF_TRUE", "POP_JUMP_IF_FALSE"}

\* str.startswith("JUMP") on the opcode names of the model
StartsWithJump(op) ==
    op \in {"JUMP_FORWARD", "JUMP_ABSOLUTE", "JUMP_BACKWARD",
            "JUMP_IF_TRUE_OR_POP", "JUMP_IF_FALSE_OR_POP"}

Last(s) == s[Len(s)]

----------------------------------------------------------------------------
(* disassemble_bytecode *)

\* the loop of disassemble_bytecode: instruction i is appended with the
\* default size, then instruction i-1 gets the offset difference
RECURSIVE DisassembleLoop(_, _, _)
DisassembleLoop(stream, i, acc) ==
    IF i > Len(stream) THEN acc
    ELSE LET appended == Append(acc, BytecodeOp(stream[i].op, stream[i].offset,
                                                stream[i].argval,
                                                stream[i].is_jump_target))
             sized == IF i # 1
                      THEN [appended EXCEPT ![i - 1] =
                               set_offset_size(appended[i - 1],
                                   stream[i].offset - appended[i - 1].offset)]
                      ELSE appended
         IN  DisassembleLoop(stream, i + 1, sized)

disassemble_bytecode(stream) == DisassembleLoop(stream, 1, <<>>)

----------------------------------------------------------------------------
(* Block, BlockMap, create_BBs *)

\* Block.__init__ (line_nos, a set of source lines, is read by no operation
\* modelled here)
Block(id, instrs) == [id |-> id, instructions |-> instrs, exec_count |-> 0]

Offsets(instrs) == {instrs[i].offset : i \in 1..Len(instrs)}

\* offset_to_index[offset]: the 0-based index of the instruction at offset;
\* defined only for the offsets of Offsets(instrs) (a KeyError otherwise)
offset_to_index(instrs, offset) ==
    (CHOOSE i \in 1..Len(instrs) : instrs[i].offset = offset) - 1

max_offset(instrs) == get_next_instruction_offset(Last(instrs))

valid_offset(instrs, offset) == offset >= 0 /\ offset <= max_offset(instrs)

\* the target create_BBs reads from a branch or FOR_ITER instruction: the
\* operand itself on both sides of the is_relative_branch test
BBsTargetOffset(instr) ==
    IF is_relative_branch(instr) THEN instr.argval ELSE instr.argval

\* the instructions whose successors create_BBs registers as block starts
BBsRegisters(instr) == is_branch(instr) \/ instr.op = "FOR_ITER"

block_starts(instrs) ==
    {0}
    \cup {get_next_instruction_offset(instrs[i]) :
            i \in {j \in 1..Len(instrs) :
                     /\ BBsRegisters(instrs[j])
                     /\ 0 <= get_next_instruction_offset(instrs[j])
                     /\ get_next_instruction_offset(instrs[j])
                            <= max_offset(instrs)}}
    \cup {BBsTargetOffset(instrs[i]) :
            i \in {j \in 1..Len(instrs) :
                     /\ BBsRegisters(instrs[j])
                     /\ valid_offset(instrs, BBsTargetOffset(instrs[j]))}}
    \cup {instrs[i].offset :
            i \in {j \in 1..Len(instrs) : instrs[j].is_jump_target}}

\* sorted(S) for a finite set of integers
RECURSIVE sorted(_)
sorted(S) ==
    IF S = {} THEN <<>>
    ELSE LET least == CHOOSE x \in S : \A y \in S : x <= y
         IN  <<least>> \o sorted(S \ {least})

\* the inner loop of create_BBs: end_index starts at num_instr; the first
\* ordered start above start_offset replaces it when it is an instruction
\* offset (a KeyError there is caught and printed), then the loop breaks
end_index(instrs, ordered, start_offset) ==
    LET above == {k \in 1..Len(ordered) : ordered[k] > start_offset}
    IN  IF above = {} THEN Len(instrs)
        ELSE LET first == ordered[CHOOSE k \in above : \A m \in above : k <= m]
             IN  IF first \in Offsets(instrs)
                 THEN offset_to_index(instrs, first)
                 ELSE Len(instrs)

\* instructions[start_index:end_index] with 0-based Python indices
Slice(instrs, start_index, stop_index) ==
    SubSeq(instrs, start_index + 1, stop_index)

\* offset_to_index[start_offset] outside any try: a block start that is the
\* offset of no instruction raises KeyError out of create_BBs
BBsRaises(instrs) ==
    \E start_offset \in block_starts(instrs) : start_offset \notin Offsets(instrs)

\* the BlockMap create_BBs returns when no lookup raises
create_BBs(instrs) ==
    LET block_starts_ordered == sorted(block_starts(instrs))
    IN  [k \in 1..Len(block_starts_ordered) |->
            Block(k - 1,
                  Slice(instrs,
                        offset_to_index(instrs, block_starts_ordered[k]),
                        end_index(instrs, block_starts_ordered,
                                  block_starts_ordered[k])))]

----------------------------------------------------------------------------
(* CFG, create_cfg, find_block_by_offset *)

\* CFG.__init__
CFG == [nodes |-> {}, edges |-> <<>>, edge_counts |-> <<>>]

\* f with key k bound to v (a Python dict assignment f[k] = v)
DictSet(f, k, v) ==
    [x \in (DOMAIN f) \cup {k} |-> IF x = k THEN v ELSE f[x]]

add_node(c, node_id) ==
    [c EXCEPT !.nodes = c.nodes \cup {node_id},
              !.edges = IF node_id \notin DOMAIN c.edges
                        THEN DictSet(c.edges, node_id, <<>>)
                        ELSE c.edges]

\* a variant that appends the edge without giving it a counter
add_edge_uncounted(c, from_node, to_node) ==
    [c EXCEPT !.edges = DictSet(c.edges, from_node,
                                Append(c.edges[from_node], to_node))]

\* when from_node has no entry the code stores to_node itself, not a list
add_edge(c, from_node, to_node) ==
    [c EXCEPT !.edges = IF from_node \in DOMAIN c.edges
                        THEN DictSet(c.edges, from_node,
                                     Append(c.edges[from_node], to_node))
                        ELSE DictSet(c.edges, from_node, to_node),
              !.edge_counts = DictSet(c.edge_counts, <<from_node, to_node>>, 0)]

\* the id of the first block holding an instruction at offset, or None
find_block_by_offset(bm, offset) ==
    LET holding == {k \in 1..Len(bm) :
                      \E i \in 1..Len(bm[k].instructions) :
                          bm[k].instructions[i].offset = offset}
    IN  IF holding = {} THEN None
        ELSE bm[CHOOSE k \in holding : \A m \in holding : k <= m].id

\* "if target_block is not None: cfg.add_edge(block_id, target_block)"
add_edge_if_found(c, block_id, target_block) ==
    IF target_block # None THEN add_edge(c, block_id, target_block) ELSE c

\* a variant that resolves every branch operand relative to the branch
CfgBranchTargetAlwaysRelative(last_instr) ==
    last_instr.offset + last_instr.argval

\* target of the is_branch arm of create_cfg
CfgBranchTargetOffset(last_instr) ==
    IF ~is_relative_branch(last_instr)
    THEN last_instr.argval
    ELSE last_instr.offset + last_instr.argval

\* target of the startswith("JUMP") arm of create_cfg
CfgJumpTargetOffset(last_instr) ==
    IF last_instr.op = "JUMP_BACKWARD"
    THEN IF ~is_relative_branch(last_instr)
         THEN last_instr.argval
         ELSE last_instr.offset - last_instr.argval
    ELSE IF ~is_relative_branch(last_instr)
         THEN last_instr.argval
         ELSE last_instr.offset + last_instr.argval

\* a variant that resolves the loop exit relative to the FOR_ITER
CfgEndForRelative(last_instr) == last_instr.offset + last_instr.argval

\* loop-exit offset of the FOR_ITER arm of create_cfg
CfgEndForOffset(last_instr) == last_instr.argval

\* whether the is_branch arm also adds the fall-through edge
CfgBranchFallsThrough(last_instr) == StartsWithPopJumpIf(last_instr.op)

\* the body of create_cfg's loop for one block
CfgBlock(c0, bm, block) ==
    LET block_id == block.id
        c == add_node(c0, block_id)
        last_instr == Last(block.instructions)
        next_offset == get_next_instruction_offset(last_instr)
    IN  IF is_branch(last_instr)
        THEN LET c1 == add_edge_if_found(c, block_id,
                           find_block_by_offset(bm,
                               CfgBranchTargetOffset(last_instr)))
             IN  IF CfgBranchFallsThrough(last_instr)
                 THEN add_edge_if_found(c1, block_id,
                          find_block_by_offset(bm, next_offset))
                 ELSE c1
        ELSE IF StartsWithJump(last_instr.op)
        THEN add_edge_if_found(c, block_id,
                 find_block_by_offset(bm, CfgJumpTargetOffset(last_instr)))
        ELSE IF last_instr.op = "FOR_ITER"
        THEN LET c1 == add_edge_if_found(c, block_id,
                           find_block_by_offset(bm, next_offset))
             IN  add_edge_if_found(c1, block_id,
                     find_block_by_offset(bm, CfgEndForOffset(last_instr)))
        ELSE IF /\ find_block_by_offset(bm, next_offset) # None
                /\ next_offset # last_instr.offset
             THEN add_edge(c, block_id, find_block_by_offset(bm, next_offset))
             ELSE c

RECURSIVE CfgLoop(_, _, _)
CfgLoop(c, bm, k) ==
    IF k > Len(bm) THEN c ELSE CfgLoop(CfgBlock(c, bm, bm[k]), bm, k + 1)

create_cfg(bm) == CfgLoop(CFG, bm, 1)

----------------------------------------------------------------------------
(* The instruction streams drawn as input *)

\* operand values of the control-transfer instructions: offsets of
\* instructions, an offset between two instructions, and offsets past the
\* end of the shorter streams
ArgVals == {0, 2, 3, 4}

\* distance from an instruction to the next one in the drawn streams (the
\* fixed streams below also hold wider instructions)
Gaps == {2}

\* is_jump_target is an input of create_BBs like op and argval: the streams
\* carry every combination of flags, the flagged targets among them
PlainChoices == [op : PlainOps, argval : {0}, is_jump_target : BOOLEAN]

ControlChoices == [op : ControlOps, argval : ArgVals, is_jump_target : BOOLEAN]

RECURSIVE OffsetAt(_, _)
OffsetAt(gaps, i) == IF i = 1 THEN 0 ELSE OffsetAt(gaps, i - 1) + gaps[i - 1]

\* the stream with the control choices at the positions of DOMAIN control,
\* the plain choices elsewhere, and offsets that start at 0 and grow by gaps
Stream(n, plain, control, gaps) ==
    [i \in 1..n |->
        LET ch == IF i \in DOMAIN control THEN control[i] ELSE plain[i]
        IN  [op |-> ch.op, offset |-> OffsetAt(gaps, i), argval |-> ch.argval,
             is_jump_target |-> ch.is_jump_target]]

\* the sets of positions that may hold the control-transfer instructions
ControlPositions(n) == {Q \in SUBSET (1..n) : Cardinality(Q) <= MaxBranch}

RawInstr(op, offset, argval, is_jump_target) ==
    [op |-> op, offset |-> offset, argval |-> argval,
     is_jump_target |-> is_jump_target]

\* the eight-instruction stream of the concrete scenario, for one choice of
\* the conditional branch and of the unconditional jump
ScenarioStream(cond, jump) ==
    << RawInstr("LOAD_FAST", 0, 0, FALSE),
       RawInstr("LOAD_FAST", 2, 0, FALSE),
       RawInstr("COMPARE_OP", 4, 0, FALSE),
       RawInstr(cond, 6, 12, FALSE),
       RawInstr("LOAD_FAST", 8, 0, FALSE),
       RawInstr(jump, 10, 14, FALSE),
       RawInstr("LOAD_FAST", 12, 0, TRUE),
       RawInstr("RETURN_VALUE", 14, 0, TRUE) >>

ScenarioStreams ==
    {ScenarioStream(cond, jump) :
        cond \in {"POP_JUMP_IF_TRUE", "POP_JUMP_IF_FALSE"},
        jump \in UnconditionalOps}

\* a for loop as an interpreter with inline caches lays it out: FOR_ITER and
\* JUMP_BACKWARD are four bytes wide
LoopStream ==
    << RawInstr("RESUME", 0, 0, FALSE),
       RawInstr("LOAD_FAST", 2, 0, FALSE),
       RawInstr("GET_ITER", 4, 0, FALSE),
       RawInstr("FOR_ITER", 6, 16, TRUE),
       RawInstr("STORE_FAST", 10, 0, FALSE),
       RawInstr("JUMP_BACKWARD", 12, 6, FALSE),
       RawInstr("END_FOR", 16, 0, TRUE),
       RawInstr("RETURN_VALUE", 18, 0, FALSE) >>

FixedStreams == ScenarioStreams \cup {LoopStream}

----------------------------------------------------------------------------
(* The pipeline: disassemble_bytecode, create_BBs, create_cfg *)

InitCfg ==
    /\ \/ \E n \in 1..MaxLen : \E P \in ControlPositions(n) :
            \E plain \in [(1..n) \ P -> PlainChoices] :
            \E control \in [P -> ControlChoices] :
            \E gaps \in [1..(n - 1) -> Gaps] :
                raw = Stream(n, plain, control, gaps)
       \/ raw \in FixedStreams
    /\ pc = "start"
    /\ instructions = <<>>
    /\ block_map = <<>>
    /\ cfg = CFG

Disassemble ==
    /\ pc = "start"
    /\ instructions' = disassemble_bytecode(raw)
    /\ pc' = "decoded"
    /\ UNCHANGED <<raw, block_map, cfg>>
    /\ UNCHANGED trackerVars
    /\ UNCHANGED ghostVars

CreateBBs ==
    /\ pc = "decoded"
    /\ IF BBsRaises(instructions)
       THEN /\ pc' = "raised"
            /\ UNCHANGED block_map
       ELSE /\ pc' = "partitioned"
            /\ block_map' = create_BBs(instructions)
    /\ UNCHANGED <<raw, instructions, cfg>>
    /\ UNCHANGED trackerVars
    /\ UNCHANGED ghostVars

CreateCfg ==
    /\ pc = "partitioned"
    /\ cfg' = create_cfg(block_map)
    /\ pc' = "built"
    /\ UNCHANGED <<raw, instructions, block_map>>
    /\ UNCHANGED trackerVars
    /\ UNCHANGED ghostVars

NextCfg == Disassemble \/ CreateBBs \/ CreateCfg

----------------------------------------------------------------------------
(* CFGTracker *)

Threads == {"main", "ghost"}

\* code.co_name of the traced frames
FuncNames == {"f", "g"}

\* names that occur in a frame's __annotations__ and locals
VarNames == {"x", "y"}

\* values bound to those names
Values == {1, 2}

\* frame.f_locals without '__annotations__': the names bound to a value
LocalBindings == UNION {[D -> Values] : D \in SUBSET VarNames}

\* the key order of frame.f_locals['__annotations__']
AnnotationLists ==
    {names \in UNION {[1..n -> VarNames] : n \in 0..Cardinality(VarNames)} :
        \A i, j \in 1..Len(names) : i # j => names[i] # names[j]}

\* the frames handed to the trace function: is_jac says ".jac" occurs in
\* code.co_filename, annotated that '__annotations__' is a key of f_locals
\* (the annotations and the locals are drawn only where the code reads them)
Frames ==
    [co_name : FuncNames, is_jac : {TRUE}, annotated : {TRUE},
     annotations : AnnotationLists, f_locals : LocalBindings]
    \cup [co_name : FuncNames, is_jac : BOOLEAN, annotated : {FALSE},
          annotations : {<<>>}, f_locals : {<<>>}]

Events == {"call", "line"}

InitTracker ==
    /\ variable_values = <<>>
    /\ variable_values_lock = FALSE
    /\ trace_hook = [t \in Threads |-> "None"]
    /\ blocked = {}
    /\ last_call = [op |-> "__init__"]
    /\ lifecycle = "idle"

\* a variant that empties the function's entry on every line event
ResetEntry(values, co_name) == DictSet(values, co_name, <<>>)

\* "if code.co_name not in self.variable_values: ... = {}"
EnsureEntry(values, co_name) ==
    IF co_name \notin DOMAIN values
    THEN DictSet(values, co_name, <<>>)
    ELSE values

\* the for loop of trace_callback from annotation i on: each name is bound
\* to frame.f_locals[var_name]; a name without a binding raises KeyError and
\* leaves the earlier assignments in place
RECURSIVE RecordLoop(_, _, _, _)
RecordLoop(values, frame, i, written) ==
    IF i > Len(frame.annotations)
    THEN [values |-> values, written |-> written, raised |-> FALSE]
    ELSE LET var_name == frame.annotations[i]
         IN  IF var_name \notin DOMAIN frame.f_locals
             THEN [values |-> values, written |-> written, raised |-> TRUE]
             ELSE RecordLoop(
                      DictSet(values, frame.co_name,
                              DictSet(values[frame.co_name], var_name,
                                      frame.f_locals[var_name])),
                      frame, i + 1,
                      DictSet(written, var_name, frame.f_locals[var_name]))

\* the locked section of trace_callback
Record(values, frame) ==
    LET entered == EnsureEntry(values, frame.co_name)
    IN  IF frame.annotated
        THEN RecordLoop(entered, frame, 1, <<>>)
        ELSE [values |-> entered, written |-> <<>>, raised |-> FALSE]

\* copy.deepcopy of the dictionary of dictionaries: an equal value that
\* shares nothing with the original
deepcopy(values) == [f \in DOMAIN values |-> [v \in DOMAIN values[f] |-> values[f][v]]]

Recorded(values) == \E f \in DOMAIN values : DOMAIN values[f] # {}

\* sys.settrace(self.trace_callback) in the calling thread
start_tracking(t) ==
    /\ t \notin blocked
    /\ trace_hook' = [trace_hook EXCEPT ![t] = "trace_callback"]
    /\ last_call' = [op |-> "start_tracking"]
    /\ lifecycle' = CASE lifecycle = "idle" -> "tracking"
                      [] lifecycle = "stopped" -> "restarted"
                      [] OTHER -> lifecycle
    /\ UNCHANGED <<variable_values, variable_values_lock, blocked>>
    /\ UNCHANGED cfgVars
    /\ UNCHANGED ghostVars

\* sys.settrace(None) in the calling thread
stop_tracking(t) ==
    /\ t \notin blocked
    /\ trace_hook' = [trace_hook EXCEPT ![t] = "None"]
    /\ last_call' = [op |-> "stop_tracking"]
    /\ lifecycle' = IF lifecycle = "recorded" THEN "stopped" ELSE lifecycle
    /\ UNCHANGED <<variable_values, variable_values_lock, blocked>>
    /\ UNCHANGED cfgVars
    /\ UNCHANGED ghostVars

get_variable_values(t) ==
    /\ t \notin blocked
    /\ IF variable_values_lock
       THEN /\ blocked' = blocked \cup {t}
            /\ last_call' = [op |-> "get_variable_values", returned |-> FALSE]
       ELSE /\ last_call' = [op |-> "get_variable_values", returned |-> TRUE,
                             result |-> deepcopy(variable_values)]
            /\ UNCHANGED blocked
    /\ UNCHANGED <<variable_values, variable_values_lock, trace_hook, lifecycle>>
    /\ UNCHANGED cfgVars
    /\ UNCHANGED ghostVars

\* the interpreter delivers an event of a frame run by thread t to the
\* trace function installed in t; an exception raised by the trace function
\* uninstalls it
trace_callback(t, frame, event) ==
    /\ t \notin blocked
    /\ trace_hook[t] = "trace_callback"
    /\ UNCHANGED cfgVars
    /\ UNCHANGED ghostVars
    /\ IF event # "line" \/ ~frame.is_jac
       THEN /\ last_call' = [op |-> "trace_callback", event |-> event,
                             co_name |-> frame.co_name,
                             written |-> <<>>, raised |-> FALSE]
            /\ UNCHANGED <<variable_values, variable_values_lock, trace_hook,
                           blocked, lifecycle>>
       ELSE IF variable_values_lock
       THEN /\ blocked' = blocked \cup {t}
            /\ last_call' = [op |-> "trace_callback", event |-> event,
                             co_name |-> frame.co_name,
                             written |-> <<>>, raised |-> FALSE]
            /\ UNCHANGED <<variable_values, variable_values_lock, trace_hook,
                           lifecycle>>
       ELSE LET r == Record(variable_values, frame)
            IN  /\ variable_values' = r.values
                /\ variable_values_lock' = r.raised
                /\ trace_hook' = IF r.raised
                                 THEN [trace_hook EXCEPT ![t] = "None"]
                                 ELSE trace_hook
                /\ last_call' = [op |-> "trace_callback", event |-> event,
                                 co_name |-> frame.co_name,
                                 written |-> r.written, raised |-> r.raised]
                /\ lifecycle' = IF lifecycle = "tracking" /\ Recorded(r.values)
                                THEN "recorded"
                                ELSE lifecycle
                /\ UNCHANGED blocked

\* start_tracking of another CFGTracker (every ShellGhost creates its own)
\* in thread t: sys.settrace installs that tracker's trace_callback
start_tracking_other(t) ==
    /\ t \notin blocked
    /\ trace_hook' = [trace_hook EXCEPT ![t] = "other.trace_callback"]
    /\ last_call' = [op |-> "start_tracking_other"]
    /\ UNCHANGED <<variable_values, variable_values_lock, blocked, lifecycle>>
    /\ UNCHANGED cfgVars
    /\ UNCHANGED ghostVars

\* thread t runs a line of instrumented code while this tracker's
\* trace_callback is not the trace function of t (sys.settrace sets the
\* trace function of the calling thread only): the tracker sees nothing
untraced_line(t, co_name) ==
    /\ t \notin blocked
    /\ trace_hook[t] # "trace_callback"
    /\ last_call' = [op |-> "line", thread |-> t, co_name |-> co_name,
                     delivered_to |-> trace_hook[t]]
    /\ UNCHANGED <<variable_values, variable_values_lock, trace_hook, blocked,
                   lifecycle>>
    /\ UNCHANGED cfgVars
    /\ UNCHANGED ghostVars

NextTracker ==
    \/ \E t \in Threads : start_tracking(t)
    \/ \E t \in Threads : start_tracking_other(t)
    \/ \E t \in Threads : \E co_name \in FuncNames : untraced_line(t, co_name)
    \/ \E t \in Threads : stop_tracking(t)
    \/ \E t \in Threads : get_variable_values(t)
    \/ \E t \in Threads : \E frame \in Frames : \E event \in Events :
           trace_callback(t, frame, event)

----------------------------------------------------------------------------
(* ShellGhost: the monitor worker, the executing thread and the tracer,   *)
(* statement by statement                                                  *)

\* what set_cfgs is called with: None or a map from module name to CFG
CfgMaps == {"None", "cfgs"}

\* what set_finished is called with: None or an exception
Exceptions == {"None", "e1", "e2"}

\* the instrumented frames whose line events the executing program runs:
\* function f with the annotated names x and y, both bound (to 1 or to 2) or
\* only x bound
GhostFrames ==
    {fr \in Frames :
        /\ fr.is_jac /\ fr.annotated /\ fr.co_name = "f"
        /\ fr.annotations = <<"x", "y">>
        /\ \/ fr.f_locals = [v \in {"x", "y"} |-> 1]
           \/ fr.f_locals = [v \in {"x", "y"} |-> 2]
           \/ fr.f_locals = [v \in {"x"} |-> 1]}

NoFrame ==
    [co_name |-> "f", is_jac |-> FALSE, annotated |-> FALSE,
     annotations |-> <<>>, f_locals |-> <<>>]

\* a copy that shares every inner dictionary with the original
ShallowSnapshot(values) ==
    [entries |-> values, shared |-> DOMAIN values, taken |-> TRUE]

\* what get_variable_values returns: the entries copied by copy.deepcopy,
\* and the function names whose inner dictionary is the very object held by
\* variable_values (a deep copy shares none)
Snapshot(values) ==
    [entries |-> deepcopy(values), shared |-> {}, taken |-> TRUE]

NoSnapshot == [entries |-> <<>>, shared |-> {}, taken |-> FALSE]

\* what a reader of the snapshot sees: a shared inner dictionary shows the
\* tracker's current content
View(snapshot) ==
    [f \in DOMAIN snapshot.entries |->
        IF f \in snapshot.shared /\ f \in DOMAIN variable_values
        THEN variable_values[f]
        ELSE snapshot.entries[f]]

\* the threads that start_ghost calls after the first one start, each
\* running ShellGhost.worker
GhostThreadNames == <<"ghost2", "ghost3", "ghost4", "ghost5">>

Restarts == {GhostThreadNames[k] : k \in 1..MaxRestarts}

\* ShellGhost.__init__, and the threads before they run anything
InitGhost ==
    /\ cfgs = "None"
    /\ cfg_cv = [owner |-> "None", waiters |-> {}, notified |-> {}]
    /\ finished_exception_lock = "None"
    /\ exception = "None"
    /\ finished = FALSE
    /\ worker = [pc |-> "unstarted", curr_variables |-> NoSnapshot,
                 printed_cfgs |-> "None", rendered |-> <<>>,
                 saw_finished |-> FALSE, final_renders |-> 0,
                 printed_exception |-> "unprinted"]
    /\ executing = [pc |-> "running", frame |-> NoFrame, i |-> 1, events |-> 0]
    /\ history = [published |-> FALSE, first_exception |-> "unset"]
    /\ ghost_threads = [w \in Restarts |-> "unstarted"]

\* a variant in which the worker never waits for the CFG map
NeverUnpublished(c) == FALSE

\* "while (self.cfgs == None)"
CfgsUnpublished(c) == c = "None"

\* a variant of notify that wakes nobody
notify_dropped(cv) == {cv}

\* cfg_cv.notify(): one waiting thread, if any, is woken; the results
\* notify can have
notify(cv) ==
    IF cv.waiters = {}
    THEN {cv}
    ELSE {[cv EXCEPT !.waiters = cv.waiters \ {t},
                     !.notified = cv.notified \cup {t}] : t \in cv.waiters}

\* JacMachine.get_bytecode calls gin.start_ghost(): the worker thread starts
start_ghost ==
    /\ executing.pc = "running"
    /\ worker.pc = "unstarted"
    /\ worker' = [worker EXCEPT !.pc = "cv_acquire"]
    /\ UNCHANGED <<cfgs, cfg_cv, finished_exception_lock, exception, finished,
                   executing, history,
                   ghost_threads>>
    /\ UNCHANGED cfgVars
    /\ UNCHANGED trackerVars

\* the executing thread publishes the CFG map
set_cfgs(c) ==
    /\ executing.pc \in {"running", "crashed"}
    /\ cfg_cv.owner = "None"
    /\ cfgs' = c
    /\ cfg_cv' \in notify(cfg_cv)
    /\ history' = [history EXCEPT !.published = history.published \/ c # "None"]
    /\ UNCHANGED <<finished_exception_lock, exception, finished, worker,
                   executing, ghost_threads>>
    /\ UNCHANGED cfgVars
    /\ UNCHANGED trackerVars

\* the executing thread signals completion
set_finished(e) ==
    /\ executing.pc \in {"running", "crashed"}
    /\ finished_exception_lock = "None"
    /\ exception' = e
    /\ finished' = TRUE
    /\ history' = [history EXCEPT !.first_exception =
                       IF history.first_exception = "unset"
                       THEN e ELSE history.first_exception]
    /\ UNCHANGED <<cfgs, cfg_cv, finished_exception_lock, worker, executing,
                   ghost_threads>>
    /\ UNCHANGED cfgVars
    /\ UNCHANGED trackerVars

\* the executing thread installs the trace hook before it runs the program
ProgramStartTracking ==
    /\ executing.pc = "running"
    /\ trace_hook["main"] = "None"
    /\ start_tracking("main")

\* a line event of an instrumented frame in the executing thread:
\* trace_callback passes its two early returns and acquires the lock
TraceAcquire(frame) ==
    /\ executing.pc = "running"
    /\ trace_hook["main"] = "trace_callback"
    /\ executing.events < MaxEvents
    /\ ~variable_values_lock
    /\ variable_values_lock' = TRUE
    /\ executing' = [pc |-> "tc_ensure", frame |-> frame, i |-> 1,
                     events |-> executing.events + 1]
    /\ UNCHANGED <<variable_values, trace_hook, blocked, last_call, lifecycle>>
    /\ UNCHANGED <<cfgs, cfg_cv, finished_exception_lock, exception, finished,
                   worker, history,
                   ghost_threads>>
    /\ UNCHANGED cfgVars

\* "if code.co_name not in self.variable_values: ... = {}"
TraceEnsure ==
    /\ executing.pc = "tc_ensure"
    /\ variable_values' = EnsureEntry(variable_values, executing.frame.co_name)
    /\ executing' = [executing EXCEPT !.pc =
                        IF executing.frame.annotated THEN "tc_write"
                        ELSE "tc_release"]
    /\ UNCHANGED <<variable_values_lock, trace_hook, blocked, last_call,
                   lifecycle>>
    /\ UNCHANGED <<cfgs, cfg_cv, finished_exception_lock, exception, finished,
                   worker, history,
                   ghost_threads>>
    /\ UNCHANGED cfgVars

\* one iteration of "for var_name in frame.f_locals['__annotations__']"; a
\* name without a binding raises KeyError out of trace_callback: the lock
\* stays held, the hook is uninstalled and the program gets the exception
TraceWrite ==
    /\ executing.pc = "tc_write"
    /\ LET frame == executing.frame
           i == executing.i
       IN  IF i > Len(frame.annotations)
           THEN /\ executing' = [executing EXCEPT !.pc = "tc_release"]
                /\ UNCHANGED <<variable_values, trace_hook>>
           ELSE IF frame.annotations[i] \notin DOMAIN frame.f_locals
           THEN /\ executing' = [executing EXCEPT !.pc = "crashed"]
                /\ trace_hook' = [trace_hook EXCEPT !["main"] = "None"]
                /\ UNCHANGED variable_values
           ELSE /\ variable_values' =
                       DictSet(variable_values, frame.co_name,
                               DictSet(variable_values[frame.co_name],
                                       frame.annotations[i],
                                       frame.f_locals[frame.annotations[i]]))
                /\ executing' = [executing EXCEPT !.i = i + 1]
                /\ UNCHANGED trace_hook
    /\ UNCHANGED <<variable_values_lock, blocked, last_call, lifecycle>>
    /\ UNCHANGED <<cfgs, cfg_cv, finished_exception_lock, exception, finished,
                   worker, history,
                   ghost_threads>>
    /\ UNCHANGED cfgVars

\* "self.variable_values_lock.release()" and the return of trace_callback
TraceRelease ==
    /\ executing.pc = "tc_release"
    /\ variable_values_lock' = FALSE
    /\ executing' = [executing EXCEPT !.pc = "running"]
    /\ UNCHANGED <<variable_values, trace_hook, blocked, last_call, lifecycle>>
    /\ UNCHANGED <<cfgs, cfg_cv, finished_exception_lock, exception, finished,
                   worker, history,
                   ghost_threads>>
    /\ UNCHANGED cfgVars

\* the frame conditions of the worker's steps that touch only ShellGhost
WorkerOnly ==
    /\ UNCHANGED <<executing, history,
                   ghost_threads>>
    /\ UNCHANGED cfgVars
    /\ UNCHANGED trackerVars

\* "self.cfg_cv.acquire()"
WorkerAcquireCv ==
    /\ worker.pc = "cv_acquire"
    /\ cfg_cv.owner = "None"
    /\ cfg_cv' = [cfg_cv EXCEPT !.owner = "ghost"]
    /\ worker' = [worker EXCEPT !.pc = "cv_check"]
    /\ UNCHANGED <<cfgs, finished_exception_lock, exception, finished>>
    /\ WorkerOnly

\* "while (self.cfgs == None): self.cfg_cv.wait()": wait releases the lock
WorkerCheckCfgs ==
    /\ worker.pc = "cv_check"
    /\ IF CfgsUnpublished(cfgs)
       THEN /\ cfg_cv' = [cfg_cv EXCEPT !.owner = "None",
                                        !.waiters = cfg_cv.waiters \cup {"ghost"}]
            /\ worker' = [worker EXCEPT !.pc = "cv_wait"]
       ELSE /\ worker' = [worker EXCEPT !.pc = "print_cfgs"]
            /\ UNCHANGED cfg_cv
    /\ UNCHANGED <<cfgs, finished_exception_lock, exception, finished>>
    /\ WorkerOnly

\* wait returns: the worker was notified and has the lock again
WorkerWake ==
    /\ worker.pc = "cv_wait"
    /\ "ghost" \in cfg_cv.notified
    /\ cfg_cv.owner = "None"
    /\ cfg_cv' = [cfg_cv EXCEPT !.owner = "ghost",
                                !.notified = cfg_cv.notified \ {"ghost"}]
    /\ worker' = [worker EXCEPT !.pc = "cv_check"]
    /\ UNCHANGED <<cfgs, finished_exception_lock, exception, finished>>
    /\ WorkerOnly

\* "print(self.cfgs)", the display loop and "self.cfg_cv.release()"
WorkerPrintCfgs ==
    /\ worker.pc = "print_cfgs"
    /\ cfg_cv' = [cfg_cv EXCEPT !.owner = "None"]
    /\ worker' = [worker EXCEPT !.pc = "fel_acquire", !.printed_cfgs = cfgs]
    /\ UNCHANGED <<cfgs, finished_exception_lock, exception, finished>>
    /\ WorkerOnly

\* "self.finished_exception_lock.acquire()", before the loop and after the
\* sleep
WorkerAcquireFel ==
    /\ worker.pc = "fel_acquire"
    /\ finished_exception_lock = "None"
    /\ finished_exception_lock' = "ghost"
    /\ worker' = [worker EXCEPT !.pc = "check_finished"]
    /\ UNCHANGED <<cfgs, cfg_cv, exception, finished>>
    /\ WorkerOnly

\* "while (not self.finished)": into the loop body with the lock held, or
\* out of the loop to "self.finished_exception_lock.release()"
WorkerCheckFinished ==
    /\ worker.pc = "check_finished"
    /\ IF ~finished
       THEN /\ worker' = [worker EXCEPT !.pc = "poll_acquire"]
            /\ UNCHANGED finished_exception_lock
       ELSE /\ worker' = [worker EXCEPT !.pc = "final_acquire",
                                        !.saw_finished = TRUE]
            /\ finished_exception_lock' = "None"
    /\ UNCHANGED <<cfgs, cfg_cv, exception, finished>>
    /\ WorkerOnly

\* the worker's steps inside tracker.get_variable_values and the rendering
\* leave the ShellGhost fields and the executing thread alone
WorkerInTracker ==
    /\ UNCHANGED <<cfgs, cfg_cv, exception, finished, executing, history,
                   ghost_threads>>
    /\ UNCHANGED <<trace_hook, blocked, last_call, lifecycle>>
    /\ UNCHANGED cfgVars

\* get_variable_values: "self.variable_values_lock.acquire()"
WorkerGetAcquire ==
    /\ worker.pc \in {"poll_acquire", "final_acquire"}
    /\ ~variable_values_lock
    /\ variable_values_lock' = TRUE
    /\ worker' = [worker EXCEPT !.pc = IF worker.pc = "poll_acquire"
                                       THEN "poll_copy" ELSE "final_copy"]
    /\ UNCHANGED <<variable_values, finished_exception_lock>>
    /\ WorkerInTracker

\* get_variable_values: "cpy = copy.deepcopy(self.variable_values)"
WorkerGetCopy ==
    /\ worker.pc \in {"poll_copy", "final_copy"}
    /\ worker' = [worker EXCEPT !.curr_variables = Snapshot(variable_values),
                                !.pc = IF worker.pc = "poll_copy"
                                       THEN "poll_release" ELSE "final_release"]
    /\ UNCHANGED <<variable_values, variable_values_lock,
                   finished_exception_lock>>
    /\ WorkerInTracker

\* get_variable_values: "self.variable_values_lock.release()" and the return
WorkerGetRelease ==
    /\ worker.pc \in {"poll_release", "final_release"}
    /\ variable_values_lock' = FALSE
    /\ worker' = [worker EXCEPT !.pc = IF worker.pc = "poll_release"
                                       THEN "poll_render" ELSE "final_render"]
    /\ UNCHANGED <<variable_values, finished_exception_lock>>
    /\ WorkerInTracker

\* the prints of the loop body, then "self.finished_exception_lock.release()"
WorkerPollRender ==
    /\ worker.pc = "poll_render"
    /\ worker' = [worker EXCEPT !.rendered = View(worker.curr_variables),
                                !.pc = "sleep"]
    /\ finished_exception_lock' = "None"
    /\ UNCHANGED <<variable_values, variable_values_lock>>
    /\ WorkerInTracker

\* "time.sleep(0.5)" returns
WorkerSleep ==
    /\ worker.pc = "sleep"
    /\ worker' = [worker EXCEPT !.pc = "fel_acquire"]
    /\ UNCHANGED <<variable_values, variable_values_lock,
                   finished_exception_lock>>
    /\ WorkerInTracker

\* the prints after the loop
WorkerFinalRender ==
    /\ worker.pc = "final_render"
    /\ worker' = [worker EXCEPT !.rendered = View(worker.curr_variables),
                                !.final_renders = worker.final_renders + 1,
                                !.pc = "check_exception"]
    /\ UNCHANGED <<variable_values, variable_values_lock,
                   finished_exception_lock>>
    /\ WorkerInTracker

\* "if self.exception: print(...)": read without the lock
WorkerCheckException ==
    /\ worker.pc = "check_exception"
    /\ worker' = [worker EXCEPT !.printed_exception = exception, !.pc = "done"]
    /\ UNCHANGED <<variable_values, variable_values_lock,
                   finished_exception_lock>>
    /\ WorkerInTracker

WorkerStep ==
    \/ WorkerAcquireCv
    \/ WorkerCheckCfgs
    \/ WorkerWake
    \/ WorkerPrintCfgs
    \/ WorkerAcquireFel
    \/ WorkerCheckFinished
    \/ WorkerGetAcquire
    \/ WorkerGetCopy
    \/ WorkerGetRelease
    \/ WorkerPollRender
    \/ WorkerSleep
    \/ WorkerFinalRender
    \/ WorkerCheckException

ExecutingStep ==
    \/ start_ghost
    \/ \E c \in CfgMaps : set_cfgs(c)
    \/ \E e \in Exceptions : set_finished(e)
    \/ ProgramStartTracking
    \/ \E frame \in GhostFrames : TraceAcquire(frame)
    \/ TraceEnsure
    \/ TraceWrite
    \/ TraceRelease

NextGhost == WorkerStep \/ ExecutingStep

\* a start_ghost call after the first one: another thread starts to run
\* ShellGhost.worker on the same ShellGhost
start_ghost_again(w) ==
    /\ executing.pc = "running"
    /\ worker.pc # "unstarted"
    /\ ghost_threads[w] = "unstarted"
    /\ ghost_threads' = [ghost_threads EXCEPT ![w] = "cv_acquire"]
    /\ UNCHANGED <<cfgs, cfg_cv, finished_exception_lock, exception, finished,
                   worker, executing, history>>
    /\ UNCHANGED cfgVars
    /\ UNCHANGED trackerVars

\* the frame conditions of a further thread's steps up to its release of
\* cfg_cv
GhostThreadOnly ==
    /\ UNCHANGED <<cfgs, finished_exception_lock, exception, finished, worker,
                   executing, history>>
    /\ UNCHANGED cfgVars
    /\ UNCHANGED trackerVars

\* "self.cfg_cv.acquire()" in thread w
GhostThreadAcquireCv(w) ==
    /\ ghost_threads[w] = "cv_acquire"
    /\ cfg_cv.owner = "None"
    /\ cfg_cv' = [cfg_cv EXCEPT !.owner = w]
    /\ ghost_threads' = [ghost_threads EXCEPT ![w] = "cv_check"]
    /\ GhostThreadOnly

\* "while (self.cfgs == None): self.cfg_cv.wait()" in thread w
GhostThreadCheckCfgs(w) ==
    /\ ghost_threads[w] = "cv_check"
    /\ IF CfgsUnpublished(cfgs)
       THEN /\ cfg_cv' = [cfg_cv EXCEPT !.owner = "None",
                                        !.waiters = cfg_cv.waiters \cup {w}]
            /\ ghost_threads' = [ghost_threads EXCEPT ![w] = "cv_wait"]
       ELSE /\ ghost_threads' = [ghost_threads EXCEPT ![w] = "print_cfgs"]
            /\ UNCHANGED cfg_cv
    /\ GhostThreadOnly

\* wait returns in thread w: it was notified and has the lock again
GhostThreadWake(w) ==
    /\ ghost_threads[w] = "cv_wait"
    /\ w \in cfg_cv.notified
    /\ cfg_cv.owner = "None"
    /\ cfg_cv' = [cfg_cv EXCEPT !.owner = w,
                                !.notified = cfg_cv.notified \ {w}]
    /\ ghost_threads' = [ghost_threads EXCEPT ![w] = "cv_check"]
    /\ GhostThreadOnly

\* the prints and "self.cfg_cv.release()" in thread w, which then goes on
\* to the polling loop (its further steps are those of worker and are not
\* followed)
GhostThreadPrintCfgs(w) ==
    /\ ghost_threads[w] = "print_cfgs"
    /\ cfg_cv' = [cfg_cv EXCEPT !.owner = "None"]
    /\ ghost_threads' = [ghost_threads EXCEPT ![w] = "polling"]
    /\ GhostThreadOnly

GhostThreadStep(w) ==
    \/ GhostThreadAcquireCv(w)
    \/ GhostThreadCheckCfgs(w)
    \/ GhostThreadWake(w)
    \/ GhostThreadPrintCfgs(w)

\* the one set_cfgs call of a run, with the CFG map of the program
set_cfgs_once ==
    /\ ~history.published
    /\ \E c \in CfgMaps \ {"None"} : set_cfgs(c)

\* the one set_finished call of a run
set_finished_once ==
    /\ history.first_exception = "unset"
    /\ \E e \in Exceptions : set_finished(e)

\* the frames in which every annotated name is bound: trace_callback
\* returns normally on them
BoundFrames ==
    {fr \in GhostFrames :
        \A i \in 1..Len(fr.annotations) :
            fr.annotations[i] \in DOMAIN fr.f_locals}

\* the steps of a trace_callback invocation that holds the lock
TraceBody == TraceEnsure \/ TraceWrite \/ TraceRelease

\* several start_ghost calls, one set_cfgs call and one set_finished call,
\* in any order
NextRestarts ==
    \/ start_ghost
    \/ \E w \in Restarts : start_ghost_again(w)
    \/ set_cfgs_once
    \/ set_finished_once
    \/ WorkerStep
    \/ \E w \in Restarts : GhostThreadStep(w)

\* one worker, one set_cfgs call and one set_finished call, in any order,
\* while the traced program runs lines whose recording succeeds
NextOnce ==
    \/ start_ghost
    \/ set_cfgs_once
    \/ set_finished_once
    \/ ProgramStartTracking
    \/ \E frame \in BoundFrames : TraceAcquire(frame)
    \/ TraceBody
    \/ WorkerStep

----------------------------------------------------------------------------
(* Specifications *)

Init == InitCfg /\ InitTracker /\ InitGhost

Next == NextCfg

\* the pipeline on every drawn stream
Spec == Init /\ [][Next]_vars

InitIdlePipeline ==
    /\ raw = <<>>
    /\ pc = "idle"
    /\ instructions = <<>>
    /\ block_map = <<>>
    /\ cfg = CFG

\* one CFGTracker used from the threads of Threads
InitTrackerSpec == InitIdlePipeline /\ InitTracker /\ InitGhost

TrackerSpec == InitTrackerSpec /\ [][NextTracker]_vars

\* one ShellGhost: its worker thread against the executing thread
InitGhostSpec == InitIdlePipeline /\ InitTracker /\ InitGhost

GhostSpec == InitGhostSpec /\ [][NextGhost]_vars

\* the worker thread is scheduled: a step it can take is eventually taken
GhostFairSpec == GhostSpec /\ WF_vars(WorkerStep)

\* the workers of several start_ghost calls against one set_cfgs call
RestartsSpec == InitGhostSpec /\ [][NextRestarts]_vars

\* every worker thread is scheduled
RestartsFairSpec ==
    /\ RestartsSpec
    /\ WF_vars(WorkerStep)
    /\ \A w \in Restarts : WF_vars(GhostThreadStep(w))

\* one worker against one set_cfgs call and one set_finished call
OnceSpec == InitGhostSpec /\ [][NextOnce]_vars

\* both threads are scheduled: the worker takes a step it can take, and a
\* trace_callback invocation that has the lock runs to its end
OnceFairSpec == OnceSpec /\ WF_vars(WorkerStep) /\ WF_vars(TraceBody)

----------------------------------------------------------------------------
(* Vocabulary of the properties *)

BBsReturned == pc \in {"partitioned", "built"}

BBsCalled == pc \in {"raised", "partitioned", "built"}

BlockIndices == 1..Len(block_map)

LastInstr(k) == Last(block_map[k].instructions)

StartOffset(k) == block_map[k].instructions[1].offset

BlockStartOffsets == {StartOffset(k) : k \in BlockIndices}

BlockOffsets(k) ==
    {block_map[k].instructions[i].offset :
        i \in 1..Len(block_map[k].instructions)}

\* the ids of the blocks that start at offset / that hold offset
BlocksStartingAt(offset) ==
    {block_map[k].id : k \in {m \in BlockIndices : StartOffset(m) = offset}}

BlocksHolding(offset) ==
    {block_map[k].id : k \in {m \in BlockIndices : offset \in BlockOffsets(m)}}

Successors(k) == cfg.edges[block_map[k].id]

SuccessorSet(k) == {Successors(k)[i] : i \in 1..Len(Successors(k))}

InRange(offset) == 0 <= offset /\ offset <= max_offset(instructions)

RECURSIVE Concatenated(_)
Concatenated(k) ==
    IF k = 0 THEN <<>> ELSE Concatenated(k - 1) \o block_map[k].instructions

----------------------------------------------------------------------------
(* Properties *)

\* C1: create_BBs returns for every decoded stream, whatever the operands,
\* and the blocks it returns are non-empty, carry the ids 0, 1, 2, ... in
\* ascending start offset, and concatenate to the original sequence.
PartitionCompleteness ==
    BBsCalled =>
        /\ pc # "raised"
        /\ \A k \in BlockIndices :
              /\ block_map[k].instructions # <<>>
              /\ block_map[k].id = k - 1
              /\ k > 1 => StartOffset(k - 1) < StartOffset(k)
        /\ Concatenated(Len(block_map)) = instructions

ReturnRaiseTerminal ==
    pc = "built" =>
        \A k \in BlockIndices :
            LastInstr(k).op \in {"RETURN_VALUE", "RAISE_VARARGS"}
                => Successors(k) = <<>>

\* the target create_cfg resolves for the last instruction of a block
CfgResolvedTarget(last_instr) ==
    IF is_branch(last_instr)
    THEN CfgBranchTargetOffset(last_instr)
    ELSE CfgJumpTargetOffset(last_instr)

\* C4: for a block that ends in an unconditional jump with an in-range
\* operand, create_cfg resolves the offset create_BBs registered as a block
\* start for that jump, and the block's only successor is the block that
\* starts there.
UnconditionalJumpSingleEdge ==
    pc = "built" =>
        \A k \in BlockIndices :
            (/\ LastInstr(k).op \in UnconditionalOps
             /\ InRange(LastInstr(k).argval))
                => /\ BBsRegisters(LastInstr(k))
                   /\ CfgResolvedTarget(LastInstr(k))
                          = BBsTargetOffset(LastInstr(k))
                   /\ \E b \in BlocksStartingAt(BBsTargetOffset(LastInstr(k))) :
                          Successors(k) = <<b>>

\* C5: a block that ends in a conditional branch with an in-range target has
\* an edge to the block starting at the target, for POP_JUMP_IF_* also an
\* edge to the block that follows it when there is one, and 1 or 2
\* successors in all.
ConditionalBranchEdges ==
    pc = "built" =>
        \A k \in BlockIndices :
            (/\ LastInstr(k).op \in ConditionalOps
             /\ InRange(LastInstr(k).argval))
                => /\ \E b \in BlocksStartingAt(LastInstr(k).argval) :
                          b \in SuccessorSet(k)
                   /\ (/\ LastInstr(k).op \in {"POP_JUMP_IF_TRUE",
                                              "POP_JUMP_IF_FALSE"}
                       /\ k < Len(block_map))
                          => block_map[k + 1].id \in SuccessorSet(k)
                   /\ Len(Successors(k)) \in {1, 2}

\* a conditional branch with both edges: to its target and to the next block
ConditionalBranchBothEdges ==
    /\ pc = "built"
    /\ \E k \in BlockIndices :
          /\ LastInstr(k).op \in {"POP_JUMP_IF_TRUE", "POP_JUMP_IF_FALSE"}
          /\ InRange(LastInstr(k).argval)
          /\ k < Len(block_map)
          /\ LastInstr(k).argval # StartOffset(k + 1)
          /\ Cardinality(SuccessorSet(k)) = 2

\* the offsets of the instructions that immediately follow instr in the
\* stream: one offset, or none when instr ends the stream
FollowingOffsets(instr) ==
    {instructions[i + 1].offset :
        i \in {m \in 1..(Len(instructions) - 1) :
                  instructions[m].offset = instr.offset}}

\* the successors of block k are exactly two, one the block holding the
\* instruction that follows its last instruction and one the block holding
\* the operand offset of its last instruction
BodyAndExitEdges(k) ==
    /\ Len(Successors(k)) = 2
    /\ \E o \in FollowingOffsets(LastInstr(k)) :
       \E body \in BlocksHolding(o) :
       \E exit \in BlocksHolding(LastInstr(k).argval) :
           SuccessorSet(k) = {body, exit}

\* C6 as stated: every block that ends in FOR_ITER with an in-range operand
\* has exactly two edges, one to the block holding the instruction that
\* immediately follows the FOR_ITER and one to the block holding the operand
\* offset.
ForIterTwoEdges ==
    pc = "built" =>
        \A k \in BlockIndices :
            (/\ LastInstr(k).op = "FOR_ITER"
             /\ InRange(LastInstr(k).argval))
                => BodyAndExitEdges(k)

\* C6 for the FOR_ITER that an instruction follows: a block that ends in a
\* FOR_ITER with an in-range operand that is not the last instruction of
\* the stream has exactly two edges, one to the block holding the following
\* instruction and one to the block holding the operand offset.
ForIterTwoEdgesInsideStream ==
    pc = "built" =>
        \A k \in BlockIndices :
            (/\ LastInstr(k).op = "FOR_ITER"
             /\ InRange(LastInstr(k).argval)
             /\ LastInstr(k).offset # Last(instructions).offset)
                => BodyAndExitEdges(k)

\* a loop head with a body block and a different exit block
ForIterBodyAndExit ==
    /\ pc = "built"
    /\ \E k \in BlockIndices :
          /\ LastInstr(k).op = "FOR_ITER"
          /\ InRange(LastInstr(k).argval)
          /\ k < Len(block_map)
          /\ Successors(k)[1] = block_map[k + 1].id
          /\ Cardinality(SuccessorSet(k)) = 2

\* the edges of the CFG, each named by the start offsets of its two blocks
EdgesByStartOffset ==
    {<<StartOffset(e[1]), StartOffset(e[2])>> :
        e \in {p \in BlockIndices \X BlockIndices :
                  block_map[p[2]].id \in SuccessorSet(p[1])}}

\* C7: the eight-instruction scenario yields the block starts {0,8,12,14},
\* four blocks, exactly the edges 0->8, 0->12, 8->14, 12->14 and no successor
\* of the block at 14, for each POP_JUMP_IF_* and each unconditional jump.
ConcreteScenario ==
    (raw \in ScenarioStreams /\ pc \in {"raised", "built"}) =>
        /\ pc = "built"
        /\ BlockStartOffsets = {0, 8, 12, 14}
        /\ Len(block_map) = 4
        /\ EdgesByStartOffset = {<<0, 8>>, <<0, 12>>, <<8, 14>>, <<12, 14>>}
        /\ \A k \in BlockIndices : StartOffset(k) = 14 => Successors(k) = <<>>

\* C8: after disassemble_bytecode every instruction but the last is as wide
\* as the distance to the next one, the last has a positive width, and the
\* next-instruction offset of every instruction is above its own offset.
WidthsPositive ==
    pc \in {"decoded", "raised", "partitioned", "built"} =>
        /\ \A i \in 1..(Len(instructions) - 1) :
              get_offset_size(instructions[i])
                  = instructions[i + 1].offset - instructions[i].offset
        /\ get_offset_size(Last(instructions)) > 0
        /\ \A i \in 1..Len(instructions) :
              get_next_instruction_offset(instructions[i])
                  > instructions[i].offset

\* C9: no successor list names a block twice, and none is longer than 2.
SuccessorsDistinct ==
    pc = "built" =>
        \A k \in BlockIndices :
            /\ Len(Successors(k)) <= 2
            /\ \A i, j \in 1..Len(Successors(k)) :
                  i # j => Successors(k)[i] # Successors(k)[j]

\* C10: an entry of variable_values is never removed; its value changes
\* only in a line event of the same function that records the same variable,
\* to the value bound in that frame; and a snapshot get_variable_values
\* returns holds every entry recorded so far (across stop and start).
SnapshotAdditivity ==
    [][/\ \A f \in DOMAIN variable_values :
            /\ f \in DOMAIN variable_values'
            /\ \A v \in DOMAIN variable_values[f] :
                  /\ v \in DOMAIN variable_values'[f]
                  /\ variable_values'[f][v] # variable_values[f][v]
                        => /\ last_call'.op = "trace_callback"
                           /\ last_call'.event = "line"
                           /\ last_call'.co_name = f
                           /\ v \in DOMAIN last_call'.written
                           /\ variable_values'[f][v] = last_call'.written[v]
       /\ (last_call'.op = "get_variable_values" /\ last_call'.returned)
             => last_call'.result = variable_values
      ]_vars

\* tracking was started, an entry recorded, tracking stopped and started
\* again, and a snapshot returned that holds a recorded entry
SnapshotAfterRestart ==
    /\ lifecycle = "restarted"
    /\ last_call.op = "get_variable_values"
    /\ last_call.returned
    /\ Recorded(last_call.result)

\* the (source, destination) pairs of the successor lists
SuccessorPairs ==
    {p \in (DOMAIN cfg.edges) \X cfg.nodes :
        \E i \in 1..Len(cfg.edges[p[1]]) : cfg.edges[p[1]][i] = p[2]}

\* C19: after create_cfg the keys of edge_counts are exactly the (source,
\* destination) pairs of the successor lists, every edge counter and every
\* block's exec_count is 0, every key of edges is a node and maps to a list,
\* and every destination is a node.
EdgeCountsConsistent ==
    pc = "built" =>
        /\ DOMAIN cfg.edges \subseteq cfg.nodes
        /\ \A n \in DOMAIN cfg.edges : cfg.edges[n] \in Seq(cfg.nodes)
        /\ DOMAIN cfg.edge_counts = SuccessorPairs
        /\ \A e \in DOMAIN cfg.edge_counts : cfg.edge_counts[e] = 0
        /\ \A k \in BlockIndices : block_map[k].exec_count = 0

\* a CFG of three blocks with an edge that was added twice
EdgeAddedTwice ==
    /\ pc = "built"
    /\ Cardinality(cfg.nodes) = 3
    /\ \E k \in BlockIndices :
          /\ Len(Successors(k)) = 2
          /\ Cardinality(SuccessorSet(k)) = 1

\* C20: in the partition create_BBs returns, every conditional branch,
\* unconditional jump (JUMP_FORWARD, JUMP_ABSOLUTE, JUMP_BACKWARD) and
\* FOR_ITER is the last instruction of its block.
BranchEndsBlock ==
    BBsReturned =>
        \A k \in BlockIndices :
            \A i \in 1..(Len(block_map[k].instructions) - 1) :
                block_map[k].instructions[i].op \notin ControlOps

\* C11: a snapshot get_variable_values returns is taken between two
\* trace_callback invocations, never inside one (it holds all or none of an
\* invocation's writes), it shares no dictionary with variable_values, and
\* what it shows stays what was copied whatever trace_callback writes later.
SnapshotAtomicIndependent ==
    /\ worker.pc \in {"poll_release", "final_release"} =>
          /\ executing.pc \in {"running"}
          /\ worker.curr_variables.entries = variable_values
    /\ worker.curr_variables.shared = {}
    /\ View(worker.curr_variables) = worker.curr_variables.entries

\* a returned snapshot with both variables of an invocation, after which a
\* later invocation has overwritten them in variable_values
SnapshotOutdated ==
    /\ worker.curr_variables.taken
    /\ "f" \in DOMAIN worker.curr_variables.entries
    /\ DOMAIN worker.curr_variables.entries["f"] = {"x", "y"}
    /\ "f" \in DOMAIN variable_values
    /\ variable_values["f"] # worker.curr_variables.entries["f"]
    /\ executing.pc = "running"

\* the worker's positions from its first tracker.get_variable_values call on
PollingStages ==
    {"poll_acquire", "poll_copy", "poll_release", "poll_render", "sleep"}

FinalStages ==
    {"final_acquire", "final_copy", "final_release", "final_render",
     "check_exception", "done"}

\* C12: the worker calls get_variable_values and renders trace data only
\* after a set_cfgs call has stored a CFG map that is not None.
MonitorWaitsForCfgs ==
    (\/ worker.pc \in PollingStages \cup FinalStages
     \/ worker.pc \in {"fel_acquire", "check_finished"}
     \/ worker.curr_variables.taken
     \/ worker.rendered # <<>>)
        => /\ history.published
           /\ worker.printed_cfgs # "None"

\* the worker has rendered recorded trace data
MonitorRendersTraceData ==
    /\ Recorded(worker.rendered)
    /\ worker.pc \in PollingStages
    /\ history.published

\* C13: the worker reaches its final report only after reading finished =
\* True with finished_exception_lock held; it then renders one snapshot and
\* prints the error of the set_finished call exactly when that call carried
\* one (printed_exception is None when nothing is printed).
FinalReportAfterFinished ==
    /\ worker.pc \in FinalStages => worker.saw_finished
    /\ worker.pc = "done" =>
          /\ worker.final_renders = 1
          /\ worker.printed_exception = history.first_exception

\* C14: once finished is True no set_finished call changes the pair
\* (finished, exception).
SetFinishedIdempotent ==
    [][finished => (finished' /\ exception' = exception)]_vars

\* C15: while polling, the worker holds finished_exception_lock only for
\* the read of the finished flag: not while it sleeps, and not while it
\* acquires the tracer lock, copies the snapshot or renders it.
FlagLockOnlyForFlagRead ==
    finished_exception_lock = "ghost" => worker.pc = "check_finished"

\* C16: once the worker is started and set_finished has been called, the
\* worker eventually emits the final report, whether or not the CFG map
\* was published.
CrashStillReported ==
    (worker.pc # "unstarted" /\ finished) ~> (worker.pc = "done")

\* C17: while a hook installed by start_tracking is the trace function of a
\* thread, a further start_tracking call, of this tracker or of another one,
\* leaves it the trace function of that thread.
FirstHookStays ==
    [][\A t \in Threads :
          (/\ trace_hook[t] # "None"
           /\ last_call'.op \in {"start_tracking", "start_tracking_other"})
              => trace_hook'[t] = trace_hook[t]]_vars

\* C18: while some thread has the tracker's hook installed (start_tracking
\* was called and the hook not removed since), no thread of the process
\* runs a line of instrumented code that trace_callback does not get.
EveryThreadTraced ==
    last_call.op = "line" =>
        \A t \in Threads : trace_hook[t] # "trace_callback"

\* the state of the monitor's state machine the worker is in
StageOf(p) ==
    IF p = "unstarted" THEN "Idle"
    ELSE IF p \in {"cv_acquire", "cv_check", "cv_wait", "print_cfgs"}
    THEN "AwaitingCFG"
    ELSE IF p \in {"fel_acquire", "check_finished"} \cup PollingStages
    THEN "Polling"
    ELSE IF p = "done" THEN "Done"
    ELSE "Finalizing"

NextStage(st) ==
    CASE st = "Idle" -> "AwaitingCFG"
      [] st = "AwaitingCFG" -> "Polling"
      [] st = "Polling" -> "Finalizing"
      [] OTHER -> "Done"

LockReleasedByEveryInvocation ==
    variable_values_lock =>
        \/ executing.pc \in {"tc_ensure", "tc_write", "tc_release"}
        \/ worker.pc \in {"poll_copy", "poll_release",
                          "final_copy", "final_release"}

\* C22: once set_cfgs has stored the CFG map, every worker thread that was
\* started, by the first start_ghost call or by a later one, eventually
\* leaves AwaitingCFG.
SetCfgsReleasesEveryWorker ==
    /\ (history.published /\ worker.pc # "unstarted")
           ~> (StageOf(worker.pc) # "AwaitingCFG")
    /\ \A w \in Restarts :
           (history.published /\ ghost_threads[w] # "unstarted")
              ~> (ghost_threads[w] = "polling")

====
